---- MODULE Spec2Model ----
(***************************************************************************)
(* Model of shred's resource container (src/res.rs): `Resources`, a map    *)
(* from `ResourceId` to `TrustCell<Box<Resource>>`, and the guards         *)
(* `Fetch`, `FetchMut`, `FetchId`, `FetchIdMut` it hands out.              *)
(*                                                                         *)
(* The `cell` module (TrustCell, Ref, RefMut) is used by res.rs but is not *)
(* part of the sources at hand; its operations are modelled from the       *)
(* specification's section 3/4.1 (borrow states Free, SharedBorrowed(n),   *)
(* ExclusiveBorrowed, one atomic check-and-update per borrow).             *)
(***************************************************************************)
EXTENDS Integers, FiniteSets, Sequences, Bags, TLC

VARIABLES resources, guards, call, last, decl

vars == <<resources, guards, call, last, decl>>

(***************************************************************************)
(* Bounds of the model.                                                    *)
(***************************************************************************)
NumCtx == 2
MaxId == 1
MaxGuards == 2

Ctx == 1..NumCtx
CompIds == 0..MaxId

(***************************************************************************)
(* Types and their run-time type handles.  "Res" (a unit struct) and       *)
(* "i32" are the types the tests register: `Res` with `add`, under the     *)
(* default id, and `i32` values with `add_with_id`, under explicit ids.    *)
(***************************************************************************)
Types == {"Res", "i32"}
IdTypes == {"i32"}

TypeIdOf(T) == IF T = "Res" THEN 11 ELSE 12

TypeIds == {TypeIdOf(T) : T \in Types}

ResourceId(tid, id) == <<tid, id>>

new_with_id(T, id) == ResourceId(TypeIdOf(T), id)

ResourceId_new(T) == new_with_id(T, 0)

Keys == {ResourceId(t, i) : t \in TypeIds, i \in CompIds}

\* The values a type has: `Res` is a unit struct; of `i32`, the 5 the tests
\* register and the 10 they double it to.
Values == {5, 10}

ValuesOf(R) == IF R = "i32" THEN Values ELSE {0}

\* The values registered at setup: the unit `Res` and the integer 5.
RegValuesOf(R) == IF R = "i32" THEN {5} ELSE {0}

\* The type-erased box holding a value r of concrete type R.
Box(R, r) == [type |-> TypeIdOf(R), val |-> r]

(***************************************************************************)
(* TrustCell: the borrow-tracking cell.                                    *)
(***************************************************************************)
Free == [st |-> "Free", n |-> 0]
SharedBorrowed(k) == [st |-> "SharedBorrowed", n |-> k]
ExclusiveBorrowed == [st |-> "ExclusiveBorrowed", n |-> 0]

TrustCell_new(v) == [flag |-> Free, inner |-> v]

\* borrow_shared: succeeds unless the cell is exclusively borrowed.
borrow(cell) ==
    IF cell.flag.st = "ExclusiveBorrowed"
    THEN [ok |-> FALSE, msg |-> "Already borrowed mutably", cell |-> cell]
    ELSE [ok |-> TRUE, msg |-> "",
          cell |-> [cell EXCEPT !.flag = SharedBorrowed(cell.flag.n + 1)]]

\* borrow_exclusive: succeeds only from Free; the failure tells which kind
\* of borrow was live.
borrow_mut(cell) ==
    CASE cell.flag.st = "Free" ->
           [ok |-> TRUE, msg |-> "",
            cell |-> [cell EXCEPT !.flag = ExclusiveBorrowed]]
      [] cell.flag.st = "SharedBorrowed" ->
           [ok |-> FALSE, msg |-> "Already borrowed", cell |-> cell]
      [] OTHER ->
           [ok |-> FALSE, msg |-> "Already borrowed mutably", cell |-> cell]

\* Release of a shared guard.
Ref_drop(cell) ==
    [cell EXCEPT !.flag = IF cell.flag.n > 1
                          THEN SharedBorrowed(cell.flag.n - 1)
                          ELSE Free]

\* Release of an exclusive guard.
RefMut_drop(cell) == [cell EXCEPT !.flag = Free]

(***************************************************************************)
(* Guards.  A guard remembers the cell it borrowed (`inner`), the struct   *)
(* it is (`kind`) and the identity it was asked for.  `guards` is the bag  *)
(* of live guards.                                                         *)
(***************************************************************************)
SharedKinds == {"Fetch", "FetchId"}
ExclusiveKinds == {"FetchMut", "FetchIdMut"}

IsShared(g) == g.kind \in SharedKinds
IsExclusive(g) == g.kind \in ExclusiveKinds

Guard(kind, tid, cid, cell) ==
    [kind |-> kind, tid |-> tid, cid |-> cid, inner |-> cell]

Live == BagToSet(guards)

\* Deref of a guard: the value stored in the cell it borrowed.
deref(g) == resources[g.inner].inner.val

(***************************************************************************)
(* Calls in progress and the outcome of the call that returned last.       *)
(* `raced` and `prev` are history.  `raced`: the borrow ran while another  *)
(* context was between lookup and borrow of the same cell (on a guard), or *)
(* right after such a borrow took the cell exclusively (on a conflict),    *)
(* with no lookup begun in between.  `prev`: the message of the            *)
(* BorrowConflict the same request got immediately before.                 *)
(***************************************************************************)
NoCell == <<0, 0>>

Idle == [op |-> "idle", tid |-> 0, cid |-> 0, access |-> "", kind |-> "",
         cell |-> NoCell]

NoResult == [op |-> "none", tid |-> 0, cid |-> 0, outcome |-> "None",
             msg |-> "", val |-> 0, raced |-> FALSE, prev |-> ""]

Outcome(op, tid, cid, outcome, msg, val, raced, prev) ==
    [op |-> op, tid |-> tid, cid |-> cid, outcome |-> outcome, msg |-> msg,
     val |-> val, raced |-> raced, prev |-> prev]

PrevMsg(rq) ==
    IF /\ last.op = rq.op /\ last.tid = rq.tid /\ last.cid = rq.cid
       /\ last.outcome = "BorrowConflict"
    THEN last.msg
    ELSE ""

\* What a consumer last declared through `reads` and `writes`.
NoDecl == [consumer |-> "none", type |-> "", id |-> 0,
           reads |-> << >>, writes |-> << >>]

AllIdle == \A c \in Ctx : call[c].op = "idle"

Pending == {c \in Ctx : call[c].op # "idle"}

Init ==
    /\ resources = [k \in {} |-> TrustCell_new(Box("Res", 0))]
    /\ guards = EmptyBag
    /\ call = [c \in Ctx |-> Idle]
    /\ last = NoResult
    /\ decl = NoDecl

(***************************************************************************)
(* Registration.  `add_with_id` takes `&mut self`: the compiler admits the *)
(* call only while no guard borrowed from the container is alive and no    *)
(* other call on it is in progress.                                        *)
(***************************************************************************)
\* Variant: the value is inserted whether or not the entry is vacant.
add_with_id_overwrites(R, r, id) ==
    LET key == new_with_id(R, id) IN
    /\ AllIdle
    /\ guards = EmptyBag
    /\ resources' = [k \in DOMAIN resources \cup {key} |->
                        IF k = key THEN TrustCell_new(Box(R, r))
                        ELSE resources[k]]
    /\ last' = Outcome("add_with_id", key[1], id, "Ok", "", r, FALSE, "")
    /\ UNCHANGED <<guards, call, decl>>

add_with_id(R, r, id) ==
    LET key == new_with_id(R, id) IN
    /\ AllIdle
    /\ guards = EmptyBag
    /\ IF key \notin DOMAIN resources
       THEN /\ resources' = resources @@ (key :> TrustCell_new(Box(R, r)))
            /\ last' = Outcome("add_with_id", key[1], id, "Ok", "", r,
                               FALSE, "")
       ELSE /\ resources' = resources
            /\ last' = Outcome("add_with_id", key[1], id,
                   "DuplicateRegistration",
                   "Tried to add a resource though it is already registered",
                   r, FALSE, "")
    /\ UNCHANGED <<guards, call, decl>>

add(R, r) == add_with_id(R, r, 0)

has_value_default_id(res_id) ==
    /\ last' = Outcome("has_value", res_id[1], res_id[2],
                   IF ResourceId(res_id[1], 0) \in DOMAIN resources
                   THEN "True" ELSE "False",
                   "", 0, FALSE, "")
    /\ UNCHANGED <<resources, guards, call, decl>>

has_value(res_id) ==
    /\ last' = Outcome("has_value", res_id[1], res_id[2],
                   IF res_id \in DOMAIN resources THEN "True" ELSE "False",
                   "", 0, FALSE, "")
    /\ UNCHANGED <<resources, guards, call, decl>>

(***************************************************************************)
(* Fetching.  Each of the four fetch methods looks the cell up in the map  *)
(* (`fetch_internal`), borrows it and wraps the borrow in its guard        *)
(* struct.  A method is described by the key it looks up, the borrow it    *)
(* asks the cell for and the guard it builds.                              *)
(***************************************************************************)
\* Variant: the lookup drops the auxiliary id and uses the default 0.
fetch_internal_default_id(id, cid) ==
    IF ResourceId(id, 0) \in DOMAIN resources
    THEN [found |-> TRUE, cell |-> ResourceId(id, 0)]
    ELSE [found |-> FALSE, cell |-> NoCell]

fetch_internal(id, cid) ==
    IF ResourceId(id, cid) \in DOMAIN resources
    THEN [found |-> TRUE, cell |-> ResourceId(id, cid)]
    ELSE [found |-> FALSE, cell |-> NoCell]

Request(op, tid, cid, access, kind) ==
    [op |-> op, tid |-> tid, cid |-> cid, access |-> access, kind |-> kind]

\* Variant: `fetch` asks the cell for `borrow_mut()`.
fetch_borrows_mut(T, id) ==
    Request("fetch", TypeIdOf(T), id, "borrow_mut", "Fetch")

fetch(T, id) == Request("fetch", TypeIdOf(T), id, "borrow", "Fetch")

\* Variant: `fetch_mut` asks the cell for `borrow()`.
fetch_mut_borrows_shared(T, id) ==
    Request("fetch_mut", TypeIdOf(T), id, "borrow", "FetchMut")

fetch_mut(T, id) ==
    Request("fetch_mut", TypeIdOf(T), id, "borrow_mut", "FetchMut")

\* Variant: `fetch_id` asks the cell for `borrow_mut()`.
fetch_id_borrows_mut(id, comp_id) ==
    Request("fetch_id", id, comp_id, "borrow_mut", "FetchId")

fetch_id(id, comp_id) == Request("fetch_id", id, comp_id, "borrow", "FetchId")

\* Variant: `fetch_id_mut` asks the cell for `borrow()`.
fetch_id_mut_borrows_shared(id, comp_id) ==
    Request("fetch_id_mut", id, comp_id, "borrow", "FetchIdMut")

fetch_id_mut(id, comp_id) ==
    Request("fetch_id_mut", id, comp_id, "borrow_mut", "FetchIdMut")

Missing(rq) ==
    Outcome(rq.op, rq.tid, rq.cid, "MissingResource",
            "No resource with the given id", 0, FALSE, "")

\* What the cell answers to the borrow the method asks for.
Grant(rq, cellref) ==
    IF rq.access = "borrow"
    THEN borrow(resources[cellref])
    ELSE borrow_mut(resources[cellref])

\* The borrow of the looked-up cell and the construction of the guard: one
\* atomic check-and-update of the cell's borrow state.
Acquire_marks_first(rq, cellref, contended) ==
    LET b == Grant(rq, cellref)
    IN /\ resources' = [resources EXCEPT ![cellref].flag =
                           IF rq.access = "borrow"
                           THEN SharedBorrowed(@.n + 1)
                           ELSE ExclusiveBorrowed]
       /\ IF b.ok
          THEN /\ guards' = guards (+)
                     SetToBag({Guard(rq.kind, rq.tid, rq.cid, cellref)})
               /\ last' = Outcome(rq.op, rq.tid, rq.cid, "Guard", "", 0,
                                  contended, PrevMsg(rq))
          ELSE /\ guards' = guards
               /\ last' = Outcome(rq.op, rq.tid, rq.cid, "BorrowConflict",
                                  b.msg, 0, FALSE, "")

Acquire(rq, cellref, contended) ==
    LET b == Grant(rq, cellref)
        lost == /\ last.outcome = "Guard"
                /\ last.raced
                /\ ResourceId(last.tid, last.cid) = cellref
    IN /\ resources' = [resources EXCEPT ![cellref] = b.cell]
       /\ IF b.ok
          THEN /\ guards' = guards (+)
                     SetToBag({Guard(rq.kind, rq.tid, rq.cid, cellref)})
               /\ last' = Outcome(rq.op, rq.tid, rq.cid, "Guard", "", 0,
                                  contended, PrevMsg(rq))
          ELSE /\ guards' = guards
               /\ last' = Outcome(rq.op, rq.tid, rq.cid, "BorrowConflict",
                                  b.msg, 0, lost, "")

\* A fetch from call to return, with no other call in progress.  At most
\* MaxGuards guards are issued at a time.
Call(rq) ==
    /\ AllIdle
    /\ LET r == fetch_internal(rq.tid, rq.cid) IN
       IF r.found
       THEN /\ Grant(rq, r.cell).ok => BagCardinality(guards) < MaxGuards
            /\ Acquire(rq, r.cell, FALSE)
       ELSE /\ last' = Missing(rq)
            /\ UNCHANGED <<resources, guards>>
    /\ UNCHANGED <<call, decl>>

(***************************************************************************)
(* Guards in use: release, read and write.                                 *)
(***************************************************************************)
Drop(g) ==
    /\ BagIn(g, guards)
    /\ resources' = [resources EXCEPT ![g.inner] =
           IF IsShared(g) THEN Ref_drop(@) ELSE RefMut_drop(@)]
    /\ guards' = guards (-) SetToBag({g})
    /\ UNCHANGED <<call, last, decl>>

Deref(g) ==
    /\ BagIn(g, guards)
    /\ last' = Outcome("deref", g.tid, g.cid, "Value", "", deref(g),
                       FALSE, "")
    /\ UNCHANGED <<resources, guards, call, decl>>

deref_mut_discards(g, v) ==
    /\ BagIn(g, guards)
    /\ IsExclusive(g)
    /\ last' = Outcome("deref_mut", g.tid, g.cid, "Written", "", v, FALSE, "")
    /\ UNCHANGED <<resources, guards, call, decl>>

deref_mut(g, v) ==
    /\ BagIn(g, guards)
    /\ IsExclusive(g)
    /\ resources' = [resources EXCEPT ![g.inner].inner.val = v]
    /\ last' = Outcome("deref_mut", g.tid, g.cid, "Written", "", v, FALSE, "")
    /\ UNCHANGED <<guards, call, decl>>

TypeOfId(tid) == CHOOSE T \in Types : TypeIdOf(T) = tid

Next ==
    \/ \E R \in Types : \E r \in RegValuesOf(R) : add(R, r)
    \/ \E R \in IdTypes, id \in CompIds :
          \E r \in RegValuesOf(R) : add_with_id(R, r, id)
    \/ \E k \in Keys : has_value(k)
    \/ \E T \in Types, id \in CompIds : Call(fetch(T, id))
    \/ \E T \in Types, id \in CompIds : Call(fetch_mut(T, id))
    \/ \E t \in TypeIds, id \in CompIds : Call(fetch_id(t, id))
    \/ \E t \in TypeIds, id \in CompIds : Call(fetch_id_mut(t, id))
    \/ \E g \in Live : Drop(g)
    \/ \E g \in Live : Deref(g)
    \/ \E g \in Live : \E v \in ValuesOf(TypeOfId(g.inner[1])) :
          deref_mut(g, v)

Spec == Init /\ [][Next]_vars

(***************************************************************************)
(* Concurrent use.  After setup the container is shared by the contexts    *)
(* 1..NumCtx.  A fetch is two steps there, the lookup in the map and the   *)
(* borrow of the cell, and other contexts may run between the two.  A      *)
(* context that is inside a fetch releases no guard.                       *)
(***************************************************************************)
\* The container after `add_with_id(5i32, id)` for every aux id; nothing is
\* registered for `Res`.
Setup ==
    [k \in {new_with_id("i32", id) : id \in CompIds} |->
        TrustCell_new(Box("i32", 5))]

InitConc ==
    /\ resources = Setup
    /\ guards = EmptyBag
    /\ call = [c \in Ctx |-> Idle]
    /\ last = NoResult
    /\ decl = NoDecl

Lookup(c, rq) ==
    /\ call[c].op = "idle"
    /\ BagCardinality(guards) + Cardinality(Pending) < MaxGuards
    /\ LET r == fetch_internal(rq.tid, rq.cid) IN
       IF r.found
       THEN /\ call' = [call EXCEPT ![c] =
                   [op |-> rq.op, tid |-> rq.tid, cid |-> rq.cid,
                    access |-> rq.access, kind |-> rq.kind, cell |-> r.cell]]
            /\ last' = [last EXCEPT !.raced = FALSE]
       ELSE /\ call' = call
            /\ last' = Missing(rq)
    /\ UNCHANGED <<resources, guards, decl>>

Borrow_blocks(c) ==
    /\ call[c].op # "idle"
    /\ Grant(Request(call[c].op, call[c].tid, call[c].cid,
                     call[c].access, call[c].kind), call[c].cell).ok
    /\ Acquire(Request(call[c].op, call[c].tid, call[c].cid,
                       call[c].access, call[c].kind),
               call[c].cell, FALSE)
    /\ call' = [call EXCEPT ![c] = Idle]
    /\ UNCHANGED decl

Borrow(c) ==
    /\ call[c].op # "idle"
    /\ Acquire(Request(call[c].op, call[c].tid, call[c].cid,
                       call[c].access, call[c].kind),
               call[c].cell,
               \E d \in Ctx \ {c} :
                   call[d].op # "idle" /\ call[d].cell = call[c].cell)
    /\ call' = [call EXCEPT ![c] = Idle]
    /\ UNCHANGED decl

Release(c, g) ==
    /\ call[c].op = "idle"
    /\ Drop(g)

NextConc ==
    \/ \E c \in Ctx, T \in Types, id \in CompIds : Lookup(c, fetch(T, id))
    \/ \E c \in Ctx, T \in Types, id \in CompIds : Lookup(c, fetch_mut(T, id))
    \/ \E c \in Ctx, t \in TypeIds, id \in CompIds : Lookup(c, fetch_id(t, id))
    \/ \E c \in Ctx, t \in TypeIds, id \in CompIds :
          Lookup(c, fetch_id_mut(t, id))
    \/ \E c \in Ctx : Borrow(c)
    \/ \E c \in Ctx, g \in Live : Release(c, g)

SpecConc == InitConc /\ [][NextConc]_vars

(***************************************************************************)
(* Consumers.  `Fetch<T>` and `FetchMut<T>` implement `SystemData`: a       *)
(* consumer is constructed from the container by `fetch(res, id)` and       *)
(* declares the identities it reads and writes by `reads(id)` and           *)
(* `writes(id)`.                                                            *)
(***************************************************************************)
Consumers == {"Fetch", "FetchMut"}

Fetch_fetch(T, id) == fetch(T, id)

Fetch_reads_default_id(T, id) == << ResourceId_new(T) >>
Fetch_reads(T, id) == << new_with_id(T, id) >>

Fetch_writes(T, id) == << >>

FetchMut_fetch_shared(T, id) ==
    Request("fetch_mut", TypeIdOf(T), id, "borrow", "FetchMut")
FetchMut_fetch(T, id) == fetch_mut(T, id)

FetchMut_reads(T, id) == << >>

FetchMut_writes(T, id) == << new_with_id(T, id) >>

SystemData_fetch(K, T, id) ==
    IF K = "Fetch" THEN Fetch_fetch(T, id) ELSE FetchMut_fetch(T, id)

SystemData_reads(K, T, id) ==
    IF K = "Fetch" THEN Fetch_reads(T, id) ELSE FetchMut_reads(T, id)

SystemData_writes(K, T, id) ==
    IF K = "Fetch" THEN Fetch_writes(T, id) ELSE FetchMut_writes(T, id)

\* A consumer of kind K for type T and aux id `id` states its accesses.
Declare(K, T, id) ==
    /\ decl' = [consumer |-> K, type |-> T, id |-> id,
                reads |-> SystemData_reads(K, T, id),
                writes |-> SystemData_writes(K, T, id)]
    /\ UNCHANGED <<resources, guards, call, last>>

\* Consumers declare their accesses and are constructed by the contexts
\* 1..NumCtx, each construction being a lookup and a borrow as above.
NextSys ==
    \/ \E K \in Consumers, T \in Types, id \in CompIds : Declare(K, T, id)
    \/ \E c \in Ctx, K \in Consumers, T \in Types, id \in CompIds :
          Lookup(c, SystemData_fetch(K, T, id))
    \/ \E c \in Ctx : Borrow(c)
    \/ \E c \in Ctx, g \in Live : Release(c, g)

SpecSys == InitConc /\ [][NextSys]_vars


(***************************************************************************)
(* Vocabulary of the properties.                                           *)
(***************************************************************************)
SharedOps == {"fetch", "fetch_id"}
ExclusiveOps == {"fetch_mut", "fetch_id_mut"}
FetchOps == SharedOps \cup ExclusiveOps

\* The live guards of the given kinds that were issued for identity X.
GuardsFor(X, kinds) ==
    LET S == {g \in Live : ResourceId(g.tid, g.cid) = X /\ g.kind \in kinds}
    IN  BagCardinality([g \in S |-> CopiesIn(g, guards)])

NumShared(X) == GuardsFor(X, SharedKinds)
NumExclusive(X) == GuardsFor(X, ExclusiveKinds)
NumLive(X) == NumShared(X) + NumExclusive(X)

LastKey == ResourceId(last.tid, last.cid)

\* This step is the return of a call of one of `ops` on identity X.
Returns(ops, X) ==
    /\ last'.op \in ops
    /\ ResourceId(last'.tid, last'.cid) = X
    /\ \/ last' # last
       \/ BagCardinality(guards') > BagCardinality(guards)

\* C1: for every registered identity, either no exclusive guard is live, or
\* exactly one exclusive guard and no shared guard is live.
C1_OneWriterXorReaders ==
    \A X \in DOMAIN resources :
        \/ NumExclusive(X) = 0
        \/ NumExclusive(X) = 1 /\ NumShared(X) = 0

\* C1 witness: an exclusive guard for X is live and a further borrow of X
\* has just been turned away.
C1_Witness ==
    /\ last.outcome = "BorrowConflict"
    /\ LastKey \in DOMAIN resources
    /\ NumExclusive(LastKey) = 1

(***************************************************************************)
(* C2 (concurrent specification).                                          *)
(***************************************************************************)
Racing(c, d) ==
    /\ c # d
    /\ call[c].op \in ExclusiveOps
    /\ call[d].op \in ExclusiveOps
    /\ call[c].cell = call[d].cell
    /\ resources[call[c].cell].flag = Free

\* C2: when two contexts are both between lookup and borrow of an exclusive
\* fetch of the same Free identity, the one whose borrow runs first gets the
\* guard and leaves the cell ExclusiveBorrowed with the other still waiting;
\* the other's borrow, run while that guard is live, fails with
\* BorrowConflict and issues no guard.
C2_ExclusiveRaceHasOneWinner ==
    [][\A c \in Ctx : \A d \in Ctx :
         /\ (Racing(c, d) /\ call'[c].op = "idle")
               => /\ last'.outcome = "Guard"
                  /\ resources'[call[c].cell].flag = ExclusiveBorrowed
                  /\ BagCardinality(guards') = BagCardinality(guards) + 1
                  /\ call'[d] = call[d]
         /\ (/\ call[d].op \in ExclusiveOps
             /\ call'[d].op = "idle"
             /\ \E g \in Live : IsExclusive(g) /\ g.inner = call[d].cell)
               => /\ last'.outcome = "BorrowConflict"
                  /\ guards' = guards
                  /\ resources' = resources
      ]_vars

\* C2 witness: an exclusive fetch has lost the race: it was between lookup
\* and borrow when the winner took the Free cell, it then failed, and the
\* winner's exclusive guard is live.
C2_Witness ==
    /\ last.outcome = "BorrowConflict"
    /\ last.op \in ExclusiveOps
    /\ last.raced
    /\ last.msg = "Already borrowed mutably"
    /\ \E g \in Live : IsExclusive(g) /\ g.inner = LastKey

\* C3: an exclusive fetch of X made while a shared guard for X is live fails
\* with BorrowConflict and changes nothing; made while no guard for X is
\* live, it succeeds and its guard is the one exclusive guard for X.
C3_SharedBlocksExclusive ==
    [][\A X \in DOMAIN resources :
         Returns(ExclusiveOps, X) =>
           /\ NumShared(X) >= 1 =>
                 /\ last'.outcome = "BorrowConflict"
                 /\ guards' = guards
                 /\ resources' = resources
           /\ NumLive(X) = 0 =>
                 /\ last'.outcome = "Guard"
                 /\ NumExclusive(X)' = 1
      ]_vars

\* C3 witness: an exclusive fetch that had failed against a shared guard
\* was repeated after the release and now holds the exclusive guard.
C3_Witness ==
    /\ last.outcome = "Guard"
    /\ last.op \in ExclusiveOps
    /\ last.prev = "Already borrowed"
    /\ NumExclusive(LastKey) = 1
    /\ NumShared(LastKey) = 0

\* C4: any fetch of X made while an exclusive guard for X is live fails
\* with BorrowConflict and changes nothing; made while no guard for X is
\* live, a shared fetch and an exclusive fetch both succeed.
C4_ExclusiveBlocksAll ==
    [][\A X \in DOMAIN resources :
         Returns(FetchOps, X) =>
           /\ NumExclusive(X) >= 1 =>
                 /\ last'.outcome = "BorrowConflict"
                 /\ guards' = guards
                 /\ resources' = resources
           /\ NumLive(X) = 0 =>
                 /\ last'.outcome = "Guard"
                 /\ NumLive(X)' = 1
                 /\ (last'.op \in SharedOps) = (NumShared(X)' = 1)
      ]_vars

\* C4 witness: a shared fetch that had failed against an exclusive guard
\* was repeated after the release and succeeded.
C4_Witness ==
    /\ last.outcome = "Guard"
    /\ last.op \in SharedOps
    /\ last.prev = "Already borrowed mutably"
    /\ NumShared(LastKey) >= 1

\* C5: a BorrowConflict names the borrow that was live: "Already borrowed
\* mutably" when an exclusive guard for X was live (for shared and exclusive
\* requests alike), "Already borrowed" when an exclusive request met only
\* shared guards.
C5_ConflictNamesLiveBorrow ==
    [][\A X \in DOMAIN resources :
         (Returns(FetchOps, X) /\ last'.outcome = "BorrowConflict") =>
           /\ NumExclusive(X) >= 1 => last'.msg = "Already borrowed mutably"
           /\ (NumExclusive(X) = 0 /\ NumShared(X) >= 1)
                 => /\ last'.op \in ExclusiveOps
                    /\ last'.msg = "Already borrowed"
      ]_vars

\* C5 witness: an exclusive request was rejected while an exclusive guard
\* for the same identity is live.
C5_Witness ==
    /\ last.outcome = "BorrowConflict"
    /\ last.op \in ExclusiveOps
    /\ last.msg = "Already borrowed mutably"
    /\ LastKey \in DOMAIN resources
    /\ NumExclusive(LastKey) = 1

\* C6: with n shared guards for X live and no exclusive one, a further
\* shared fetch of X succeeds and makes them n + 1.
C6_SharedFetchesAddUp ==
    [][\A X \in DOMAIN resources :
         (Returns(SharedOps, X) /\ NumExclusive(X) = 0) =>
           /\ last'.outcome = "Guard"
           /\ NumShared(X)' = NumShared(X) + 1
           /\ NumExclusive(X)' = 0
      ]_vars

\* C6 witness: a shared fetch has just succeeded and two or more shared
\* guards for its identity are live.
C6_Witness ==
    /\ last.outcome = "Guard"
    /\ last.op \in SharedOps
    /\ LastKey \in DOMAIN resources
    /\ NumShared(LastKey) >= 2

\* C7: the borrow state of every cell is the census of the live guards for
\* its identity: SharedBorrowed(n) for n >= 1 shared guards,
\* ExclusiveBorrowed for one exclusive guard, Free for none; the count is
\* never negative.
C7_FlagCountsGuards ==
    \A X \in DOMAIN resources :
        /\ resources[X].flag.n >= 0
        /\ resources[X].flag =
             CASE NumExclusive(X) = 1 /\ NumShared(X) = 0 -> ExclusiveBorrowed
               [] NumExclusive(X) = 0 /\ NumShared(X) >= 1 ->
                     SharedBorrowed(NumShared(X))
               [] NumExclusive(X) = 0 /\ NumShared(X) = 0 -> Free
               [] OTHER -> [st |-> "Invalid", n |-> 0]

\* C7 witness: the guard of the last successful fetch has been released
\* again and the cell is back to Free while another cell is still borrowed.
C7_Witness ==
    /\ last.outcome = "Guard"
    /\ LastKey \in DOMAIN resources
    /\ resources[LastKey].flag = Free
    /\ \E Y \in DOMAIN resources : resources[Y].flag.st = "SharedBorrowed"

\* C8: a fetch of an identity that is not registered fails with
\* MissingResource, issues no guard and changes no cell.
C8_UnregisteredIsMissing ==
    [][\A X \in Keys \ DOMAIN resources :
         Returns(FetchOps, X) =>
           /\ last'.outcome = "MissingResource"
           /\ guards' = guards
           /\ resources' = resources
      ]_vars

\* C8 witness: a fetch has failed with MissingResource while a guard for a
\* registered identity of the same type is live.
C8_Witness ==
    /\ last.outcome = "MissingResource"
    /\ last.op \in FetchOps
    /\ LastKey \notin DOMAIN resources
    /\ \E g \in Live : g.tid = last.tid

\* C9: registering under an identity that is already present fails with
\* DuplicateRegistration and leaves the container as it was.
C9_DuplicateRegistrationRejected ==
    [][\A X \in DOMAIN resources :
         (/\ last'.op = "add_with_id"
          /\ ResourceId(last'.tid, last'.cid) = X
          /\ last' # last)
           => /\ last'.outcome = "DuplicateRegistration"
              /\ resources' = resources
      ]_vars

\* C9 witness: a second registration with another value was rejected and
\* the value stored first is still there.
C9_Witness ==
    /\ last.outcome = "DuplicateRegistration"
    /\ LastKey \in DOMAIN resources
    /\ resources[LastKey].inner.val # last.val

Sibling(X, Y) == X[1] = Y[1] /\ X[2] # Y[2]

\* C10: identities of one type with different aux ids are independent
\* slots: a registration creates exactly its own slot with its own value, a
\* fetch of X borrows X's own cell, fails with BorrowConflict only if a
\* guard for X itself is live, and the value of X changes only while an
\* exclusive guard for X is live.
C10_AuxIdsAreIndependent ==
    [][\A X \in Keys :
         /\ (X \notin DOMAIN resources /\ X \in DOMAIN resources')
               => /\ last' = Outcome("add_with_id", X[1], X[2], "Ok", "",
                                     resources'[X].inner.val, FALSE, "")
                  /\ \A Y \in DOMAIN resources : resources'[Y] = resources[Y]
                  /\ DOMAIN resources' = DOMAIN resources \cup {X}
         /\ (X \in DOMAIN resources /\ Returns(FetchOps, X))
               => /\ last'.outcome = "BorrowConflict" => NumLive(X) >= 1
                  /\ last'.outcome = "Guard" =>
                        \E g \in BagToSet(guards') :
                            /\ CopiesIn(g, guards') = CopiesIn(g, guards) + 1
                            /\ g.inner = X
                            /\ ResourceId(g.tid, g.cid) = X
                  /\ \A Y \in DOMAIN resources :
                        Y # X => resources'[Y] = resources[Y]
         /\ (X \in DOMAIN resources
               /\ resources'[X].inner # resources[X].inner)
               => /\ NumExclusive(X) = 1
                  /\ \A Y \in DOMAIN resources :
                        Y # X => resources'[Y] = resources[Y]
      ]_vars

\* C10 witness: two aux ids of one type hold different values, an exclusive
\* guard is live on one, and a fetch of the other has just succeeded.
C10_Witness ==
    \E X \in DOMAIN resources : \E Y \in DOMAIN resources :
        /\ Sibling(X, Y)
        /\ resources[X].inner.val # resources[Y].inner.val
        /\ NumExclusive(X) = 1
        /\ last.outcome = "Guard"
        /\ LastKey = Y
        /\ NumLive(Y) = 1
        /\ \A g \in Live : ResourceId(g.tid, g.cid) = g.inner

\* C11: a write of v through an exclusive guard for X makes v the stored
\* value of X; every step that is not a write to X, a release and a later
\* fetch included, keeps the stored value; and reading through a guard for
\* X yields the stored value.  So the value written is what is read after
\* the release, until the next write.
C11_WrittenValueIsObserved ==
    [][\A X \in DOMAIN resources :
         /\ Returns({"deref_mut"}, X) => resources'[X].inner.val = last'.val
         /\ ~Returns({"deref_mut"}, X) =>
               /\ X \in DOMAIN resources'
               /\ resources'[X].inner = resources[X].inner
         /\ Returns({"deref"}, X) =>
               /\ last'.val = resources[X].inner.val
               /\ resources' = resources
      ]_vars

\* C11 witness: 10 is read through a shared guard for an identity under aux
\* id 1; every registration stores 5, so 10 was written through an
\* exclusive guard that has since been released.
C11_Witness ==
    /\ last.op = "deref"
    /\ last.val = 10
    /\ last.cid = 1
    /\ NumShared(LastKey) >= 1
    /\ NumExclusive(LastKey) = 0

\* C12: a fetch of X, whether it succeeds or fails, leaves the key set, the
\* stored values and every cell other than X's as they were; a failed fetch
\* changes nothing at all, and a successful one changes only the borrow
\* state of X's cell.
C12_FetchTouchesOnlyItsCell ==
    [][\A X \in Keys :
         Returns(FetchOps, X) =>
           /\ DOMAIN resources' = DOMAIN resources
           /\ \A Y \in DOMAIN resources :
                 /\ Y # X => resources'[Y] = resources[Y]
                 /\ resources'[Y].inner = resources[Y].inner
           /\ last'.outcome # "Guard" =>
                 /\ resources' = resources
                 /\ guards' = guards
           /\ last'.outcome = "Guard" =>
                 /\ X \in DOMAIN resources
                 /\ resources'[X].flag # resources[X].flag
      ]_vars

\* C12 witness: a fetch under aux id 1 has just succeeded while the cell of
\* another identity is borrowed, and its own cell is the one it borrowed.
C12_Witness ==
    /\ last.outcome = "Guard"
    /\ last.op \in FetchOps
    /\ last.cid = 1
    /\ resources[LastKey].flag # Free
    /\ \E Y \in DOMAIN resources :
          /\ Y # LastKey
          /\ NumLive(Y) = 1
          /\ resources[Y].flag # Free

\* C13: for every type T and aux id, the dynamic fetch keyed by T's run-time
\* type handle finds the same cell as the static fetch of T, is granted or
\* refused in the same states with the same message and the same resulting
\* borrow state, for shared and for exclusive access alike; and a dynamic
\* guard reads the very value a static guard for the same identity reads.
C13_DynamicFetchMatchesStatic ==
    /\ \A T \in Types : \A id \in CompIds :
         /\ LET s == fetch(T, id)
                d == fetch_id(TypeIdOf(T), id)
                rs == fetch_internal(s.tid, s.cid)
                rd == fetch_internal(d.tid, d.cid)
            IN  /\ rs = rd
                /\ rs.found => Grant(s, rs.cell) = Grant(d, rd.cell)
         /\ LET s == fetch_mut(T, id)
                d == fetch_id_mut(TypeIdOf(T), id)
                rs == fetch_internal(s.tid, s.cid)
                rd == fetch_internal(d.tid, d.cid)
            IN  /\ rs = rd
                /\ rs.found => Grant(s, rs.cell) = Grant(d, rd.cell)
    /\ \A g \in Live : \A h \in Live :
         ResourceId(g.tid, g.cid) = ResourceId(h.tid, h.cid) =>
            /\ g.inner = h.inner
            /\ deref(g) = deref(h)

\* C13 witness: a static and a dynamic shared guard for one identity are
\* live together, the dynamic one granted last, and the stored value is one
\* that was written after registration.
C13_Witness ==
    \E g \in Live : \E h \in Live :
        /\ g.kind = "Fetch"
        /\ h.kind = "FetchId"
        /\ ResourceId(g.tid, g.cid) = ResourceId(h.tid, h.cid)
        /\ last.op = "fetch_id"
        /\ last.outcome = "Guard"
        /\ LastKey = ResourceId(h.tid, h.cid)
        /\ deref(h) = 10

\* C14: what a consumer declares is fixed by its kind, type and aux id: a
\* Fetch<T> declares the one identity (T, id) as read and nothing as
\* written, a FetchMut<T> declares nothing as read and the one identity
\* (T, id) as written.
C14_DeclaredAccesses ==
    /\ decl.consumer = "Fetch" =>
          /\ decl.reads = << ResourceId(TypeIdOf(decl.type), decl.id) >>
          /\ decl.writes = << >>
    /\ decl.consumer = "FetchMut" =>
          /\ decl.reads = << >>
          /\ decl.writes = << ResourceId(TypeIdOf(decl.type), decl.id) >>

\* C14 witness: a Fetch consumer has declared its accesses for the largest
\* aux id.
C14_Witness ==
    /\ decl.consumer = "Fetch"
    /\ decl.id = MaxId
    /\ Len(decl.reads) = 1

\* C15: a fetch never waits.  A call that has found its cell can always
\* take its borrow step, whatever guards are live; that one step ends the
\* call with a guard or with BorrowConflict; a guard is only ever issued to
\* a caller in its own borrow step; and a release issues no guard and
\* completes no call, so a caller that has failed gets nothing from it.
C15_FetchNeverWaits ==
    /\ [](\A c \in Ctx : call[c].op # "idle" => ENABLED Borrow(c))
    /\ [][/\ \A c \in Ctx :
               (call[c].op # "idle" /\ call'[c] # call[c]) =>
                  /\ call'[c] = Idle
                  /\ last'.op = call[c].op
                  /\ last'.outcome \in {"Guard", "BorrowConflict"}
                  /\ (last'.outcome = "Guard") =
                        (BagCardinality(guards') = BagCardinality(guards) + 1)
          /\ BagCardinality(guards') > BagCardinality(guards) =>
               \E c \in Ctx :
                  /\ call[c].op # "idle"
                  /\ call'[c] = Idle
                  /\ guards' = guards (+) SetToBag(
                        {Guard(call[c].kind, call[c].tid, call[c].cid,
                               call[c].cell)})
          /\ BagCardinality(guards') < BagCardinality(guards) =>
               /\ call' = call
               /\ last' = last
               /\ \A g \in BagToSet(guards') :
                     CopiesIn(g, guards') <= CopiesIn(g, guards)
      ]_vars

\* C15 witness: a fetch has failed with BorrowConflict, the guards for its
\* identity have since been released, and the caller holds nothing: no call
\* is in progress and no guard for the identity is live.
C15_Witness ==
    /\ last.outcome = "BorrowConflict"
    /\ AllIdle
    /\ LastKey \in DOMAIN resources
    /\ NumLive(LastKey) = 0
    /\ resources[LastKey].flag = Free

\* C16: has_value can be asked in every state, whatever guards are live; it
\* answers true exactly when the identity is registered and changes no
\* cell and no guard.  `add` registers under aux id 0 only: the type that
\* is registered by `add` alone never has an identity under another aux id.
C16_HasValueOnlyLooks ==
    /\ [](\A X \in Keys : ENABLED has_value(X))
    /\ [](\A id \in CompIds \ {0} :
             new_with_id("Res", id) \notin DOMAIN resources)
    /\ [][\A X \in Keys :
            Returns({"has_value"}, X) =>
              /\ last'.outcome \in {"True", "False"}
              /\ (last'.outcome = "True") = (X \in DOMAIN resources)
              /\ resources' = resources
              /\ guards' = guards
         ]_vars

\* C16 witness: has_value has answered false for (Res, 1) after `add` of a
\* Res, while an exclusive guard for (Res, 0) is live.
C16_Witness ==
    /\ last.op = "has_value"
    /\ last.outcome = "False"
    /\ LastKey = new_with_id("Res", 1)
    /\ ResourceId_new("Res") \in DOMAIN resources
    /\ NumExclusive(ResourceId_new("Res")) = 1

\* C17: a fetch that fails with BorrowConflict leaves its cell, every other
\* cell and the live guards exactly as they were; and whenever no guard for
\* a registered identity is live, its cell is Free and a shared and an
\* exclusive borrow of it would both be granted.
C17_FailedBorrowChangesNothing ==
    /\ [](\A X \in DOMAIN resources :
            NumLive(X) = 0 =>
               /\ resources[X].flag = Free
               /\ Grant(fetch_id(X[1], X[2]), X).ok
               /\ Grant(fetch_id_mut(X[1], X[2]), X).ok)
    /\ [][\A X \in DOMAIN resources :
            (Returns(FetchOps, X) /\ last'.outcome = "BorrowConflict") =>
               /\ resources'[X] = resources[X]
               /\ resources' = resources
               /\ guards' = guards
         ]_vars

\* C17 witness: an exclusive fetch that had failed against a live exclusive
\* guard was repeated after that guard's release and was granted.
C17_Witness ==
    /\ last.outcome = "Guard"
    /\ last.op \in ExclusiveOps
    /\ last.prev = "Already borrowed mutably"
    /\ resources[LastKey].flag = ExclusiveBorrowed
    /\ NumLive(LastKey) = 1

TypedKinds == {"Fetch", "FetchMut"}
UntypedKinds == {"FetchId", "FetchIdMut"}

\* C18: static and dynamic fetches of one identity share one cell and
\* exclude each other.  While a typed guard for X is live a dynamic
\* exclusive fetch of X fails, and a dynamic shared fetch fails if that
\* guard is exclusive; the same holds with typed and dynamic swapped; so an
\* exclusive guard of either sort is never live together with a guard of
\* the other sort for the same identity.
C18_StaticAndDynamicExclude ==
    /\ [](\A X \in DOMAIN resources :
            /\ \A g \in Live : ResourceId(g.tid, g.cid) = X => g.inner = X
            /\ GuardsFor(X, {"FetchMut"}) >= 1 =>
                  GuardsFor(X, UntypedKinds) = 0
            /\ GuardsFor(X, {"FetchIdMut"}) >= 1 =>
                  GuardsFor(X, TypedKinds) = 0)
    /\ [][\A X \in DOMAIN resources :
            LET Refused == /\ last'.outcome = "BorrowConflict"
                           /\ guards' = guards
                           /\ resources' = resources
            IN /\ (Returns({"fetch_id_mut"}, X)
                     /\ GuardsFor(X, TypedKinds) >= 1) => Refused
               /\ (Returns({"fetch_id"}, X)
                     /\ GuardsFor(X, {"FetchMut"}) >= 1) => Refused
               /\ (Returns({"fetch_mut"}, X)
                     /\ GuardsFor(X, UntypedKinds) >= 1) => Refused
               /\ (Returns({"fetch"}, X)
                     /\ GuardsFor(X, {"FetchIdMut"}) >= 1) => Refused
         ]_vars

\* C18 witness: a dynamic exclusive fetch has been refused while a typed
\* shared guard for the same identity is the only guard for it.
C18_Witness ==
    /\ last.op = "fetch_id_mut"
    /\ last.outcome = "BorrowConflict"
    /\ LastKey \in DOMAIN resources
    /\ GuardsFor(LastKey, {"Fetch"}) >= 1
    /\ GuardsFor(LastKey, UntypedKinds) = 0

SeqRange(s) == {s[i] : i \in 1..Len(s)}

\* The identities the consumer behind a request or a guard declares.
ReadsOf(x) == SeqRange(SystemData_reads(x.kind, TypeOfId(x.tid), x.cid))
WritesOf(x) == SeqRange(SystemData_writes(x.kind, TypeOfId(x.tid), x.cid))

\* The declarations of x and y collide: one writes what the other reads or
\* writes.
Collide(x, y) ==
    \/ WritesOf(x) \cap (ReadsOf(y) \cup WritesOf(y)) # {}
    \/ WritesOf(y) \cap (ReadsOf(x) \cup WritesOf(x)) # {}

\* C19: the construction of a consumer borrows exactly what the consumer
\* declares.  A granted Fetch adds one shared guard on the one identity of
\* its `reads`, leaving that cell SharedBorrowed, and no exclusive guard; a
\* granted FetchMut adds one exclusive guard on the one identity of its
\* `writes`, leaving that cell ExclusiveBorrowed, and no shared guard; no
\* other cell changes.  A construction is refused with BorrowConflict only
\* against a live consumer whose declarations collide with its own, however
\* the constructions of the contexts interleave.
C19_ConstructionBorrowsWhatIsDeclared ==
    [][\A c \in Ctx :
         (call[c].op # "idle" /\ call'[c] = Idle) =>
            LET rq == call[c]
                D == IF rq.kind = "Fetch" THEN ReadsOf(rq) ELSE WritesOf(rq)
            IN /\ Cardinality(ReadsOf(rq) \cup WritesOf(rq)) = 1
               /\ ReadsOf(rq) \cap WritesOf(rq) = {}
               /\ (rq.kind = "Fetch") = (WritesOf(rq) = {})
               /\ last'.outcome = "Guard" =>
                    \A X \in DOMAIN resources :
                       IF X \in D
                       THEN /\ NumLive(X)' = NumLive(X) + 1
                            /\ IF rq.kind = "Fetch"
                               THEN /\ NumShared(X)' = NumShared(X) + 1
                                    /\ resources'[X].flag =
                                          SharedBorrowed(NumShared(X) + 1)
                               ELSE /\ NumExclusive(X)' = 1
                                    /\ NumShared(X)' = 0
                                    /\ resources'[X].flag = ExclusiveBorrowed
                       ELSE /\ resources'[X] = resources[X]
                            /\ NumShared(X)' = NumShared(X)
                            /\ NumExclusive(X)' = NumExclusive(X)
               /\ last'.outcome = "BorrowConflict" =>
                    \E h \in Live : Collide(rq, h)
      ]_vars

\* C19 witness: consumers with non-colliding declarations are live together:
\* a FetchMut on one identity and a Fetch, constructed last, on another of
\* the same type.
C19_Witness ==
    \E g \in Live : \E h \in Live :
        /\ g.kind = "FetchMut"
        /\ h.kind = "Fetch"
        /\ ~Collide(g, h)
        /\ g.tid = h.tid
        /\ last.outcome = "Guard"
        /\ last.op = "fetch"
        /\ LastKey = h.inner

\* C20: a registered identity stays registered with the same type, and its
\* stored value changes only in a write through a live exclusive guard for
\* it, which changes nothing else.  Registrations, refused registrations,
\* has_value, fetches, failed fetches, reads, releases and anything done to
\* another identity leave the value as it was.
C20_OnlyWritesChangeValues ==
    [][\A X \in DOMAIN resources :
         /\ X \in DOMAIN resources'
         /\ resources'[X].inner.type = resources[X].inner.type
         /\ resources'[X].inner.val # resources[X].inner.val =>
              /\ \E g \in Live :
                    /\ IsExclusive(g)
                    /\ ResourceId(g.tid, g.cid) = X
                    /\ g.inner = X
              /\ last'.op = "deref_mut"
              /\ ResourceId(last'.tid, last'.cid) = X
              /\ last'.val = resources'[X].inner.val
              /\ guards' = guards
              /\ resources'[X].flag = resources[X].flag
              /\ \A Y \in DOMAIN resources :
                    Y # X => resources'[Y] = resources[Y]
      ]_vars

\* C20 witness: 10 has just been written through the live exclusive guard
\* for one identity while another identity of the same type, with a shared
\* guard live, still holds the 5 it was registered with.
C20_Witness ==
    /\ last.op = "deref_mut"
    /\ last.val = 10
    /\ LastKey \in DOMAIN resources
    /\ resources[LastKey].inner.val = 10
    /\ NumExclusive(LastKey) = 1
    /\ \E Y \in DOMAIN resources :
          /\ Sibling(LastKey, Y)
          /\ resources[Y].inner.val = 5
          /\ NumShared(Y) >= 1

====
